---- MODULE Spec2Model ----
(***************************************************************************)
(* RenderNode (rendernode.py): distribution of the tile render jobs of a   *)
(* list of quadtrees over a worker pool, level by level.                   *)
(*                                                                         *)
(* The scheduler thread running RenderNode.go is modelled step by step     *)
(* (pc is its position in go), the workers of multiprocessing.Pool are     *)
(* separate actions, and wall-clock time is a counter advanced by Tick.    *)
(***************************************************************************)
EXTENDS Integers, Sequences, FiniteSets, TLC

\* ---------------------------------------------------------------- bounds
\* Largest number of quadtrees in an ordinary run.
MaxQuadtrees == 3
\* Largest depth p of a quadtree in an ordinary run.
MaxP == 2
\* The high-volume run: HighQuadtrees quadtrees of depth HighP each.
HighQuadtrees == 10
HighP == 6
\* the depth of the deeper quadtree of the run of two quadtrees of unequal
\* depth, <<1, MixedP>>
MixedP == 3
\* the depth of the quadtrees of the high-volume run under fairness
LiveP == 5
\* Number of workers of the concurrent pool (procs > 1).
ManyProcs == 2
\* The clock (whole seconds) stops advancing at MaxClock.
MaxClock == 2
\* roundrobin on its own: number of sources and length of a source.
MaxSources == 3
MaxLen == 3
\* the batchers on their own: the batch sizes they are called with
MaxBatchSize == 6
\* print_statusline on its own: the values of complete
MaxComplete == 2100

VARIABLES
    quadtrees,        \* self.quadtrees: sequence of quadtrees, each its depth p
    render_index,     \* q._render_index of the quadtree at each list position
    procs,            \* the argument of go
    pc,               \* position of the scheduler in go
    clock,            \* time.time(), in whole seconds
    max_p,            \* self.max_p
    total,            \* go: total
    complete,         \* go: complete
    level,            \* level passed to print_statusline (1 = base pass)
    zoom,             \* go: zoom of the inner pass (0 during the base pass)
    batch_size,       \* go: batch_size
    timestamp,        \* go: timestamp
    count_to_remove,  \* go: count_to_remove
    results,          \* go: results, the deque of pending handles
    handles,          \* the result objects not yet resolved, by handle id
    nextid,           \* id of the next handle
    iterables,        \* the job sequences handed to roundrobin
    rr,               \* the state of the roundrobin generator
    merged,           \* items yielded so far by a roundrobin run on its own
    lastbatch,        \* the batch of the most recent apply_async
    nbatch,           \* number of batches submitted in the current level
    lastline,         \* the most recent progress line logged
    roots,            \* number of root-tile renders per quadtree
    rooti,            \* position of the loop over quadtrees at the end of go
    closed,           \* pool.close() and pool.join() have run
    error,            \* the exception go ended with, "none" otherwise
    raisedat,         \* the call that raised it
    faillevel,        \* level of the first batch whose execution raised, else 0
    qlen0,            \* queue length at the most recent time check that fired
    drained,          \* handles resolved by the most recent time-based drain
    lastget,          \* id of the handle resolved most recently
    finished          \* levels whose pass has ended

vars == <<quadtrees, render_index, procs, pc, clock, max_p, total, complete,
          level, zoom, batch_size, timestamp, count_to_remove, results,
          handles, nextid, iterables, rr, merged, lastbatch, nbatch, lastline,
          roots, rooti, closed, error, raisedat, faillevel, qlen0, drained,
          lastget, finished>>

\* ------------------------------------------------------------- helpers
RECURSIVE Pow4(_)
\* 4**k
Pow4(k) == IF k = 0 THEN 1 ELSE 4 * Pow4(k - 1)

RECURSIVE SeqSum(_)
SeqSum(s) == IF s = <<>> THEN 0 ELSE Head(s) + SeqSum(Tail(s))

RECURSIVE SeqMax(_)
SeqMax(s) == IF s = <<>> THEN 0
             ELSE LET m == SeqMax(Tail(s)) IN IF Head(s) > m THEN Head(s) ELSE m

RECURSIVE SelectSeq2(_, _)
\* the positions i of quadtrees, in list order, with zoom <= quadtrees[i]
SelectSeq2(qs, z) ==
    IF qs = <<>> THEN <<>>
    ELSE SelectSeq2(SubSeq(qs, 1, Len(qs) - 1), z)
         \o (IF z <= qs[Len(qs)] THEN <<Len(qs)>> ELSE <<>>)

\* All sequences over S of length 1..n.
SeqsUpTo(S, n) == UNION {[1..k -> S] : k \in 1..n}

\* ------------------------------------------------------ batch size (go)
\* A plausible slip: "if" for "while", the size is doubled once only.
DoubleUntil10_Once(b) == IF b < 10 THEN b * 2 ELSE b

RECURSIVE DoubleUntil10(_)
\* while batch_size < 10: batch_size *= 2
DoubleUntil10(b) == IF b < 10 THEN DoubleUntil10(b * 2) ELSE b

\* A plausible slip: the size is raised to 10 instead of being doubled.
BatchSize_Max(n) == IF 4 * n < 10 THEN 10 ELSE 4 * n

\* batch_size = 4*len(quadtrees), doubled while it is below 10
BatchSize(n) == DoubleUntil10(4 * n)

\* The batchers raise batch_size to len(self.quadtrees) when it is smaller.
BatcherSize(b, n) == IF b < n THEN n ELSE b

\* --------------------------------------------------- thresholds (go)
\* count_to_remove = (1000//batch_size)
CountToRemove(b) == 1000 \div b
\* A plausible slip: <= for <.
TimeDrainRuns_Equal(ctr, len) == ctr <= len
\* the time-based drain runs only if count_to_remove < len(results)
TimeDrainRuns(ctr, len) == ctr < len
\* A plausible slip: the drain starts one handle late.
SizeDrainStarts_Late(len, b) == len > (10000 \div b) + 1
\* if len(results) > (10000//batch_size)
SizeDrainStarts(len, b) == len > (10000 \div b)
\* A plausible slip: >= for >, which resolves one handle more.
SizeDrainGoesOn_OneMore(len, b) == len >= (500 \div b)
\* while len(results) > (500//batch_size)
SizeDrainGoesOn(len, b) == len > (500 \div b)
\* A plausible slip: the last handle is left in the queue.
FinalDrainGoesOn_LeavesOne(len) == len > 1
\* while len(results) > 0
FinalDrainGoesOn(len) == len > 0
\* if timestamp2 >= timestamp + 1
SecondElapsed(t2, t) == t2 >= t + 1

\* ----------------------------------------------------- print_statusline
\* A plausible slip: the band from 100 to 999 is left out.
StatuslineLogged_TwoBands(c, unconditional) ==
    IF unconditional THEN TRUE
    ELSE IF c < 100 THEN c % 25 = 0
    ELSE c % 1000 = 0

\* TRUE iff print_statusline logs a line
StatuslineLogged(c, unconditional) ==
    IF unconditional THEN TRUE
    ELSE IF c < 100 THEN c % 25 = 0
    ELSE IF c < 1000 THEN c % 100 = 0
    ELSE c % 1000 = 0

print_statusline(c, t, l, unconditional) ==
    IF StatuslineLogged(c, unconditional)
    THEN [complete |-> c, total |-> t, level |-> l, max_p |-> max_p,
          unconditional |-> unconditional]
    ELSE lastline

\* ---------------------------------------------------------- roundrobin
\* The generator's state: nexts is the cycle, from the source whose turn it
\* is; iters[i] is the number of items taken from source i; pending as in
\* the code.  A source is [qt |-> the quadtree, len |-> its number of jobs];
\* its k-th item is the job [qt |-> the quadtree, tile |-> k].
RRStart(its) ==
    [pending |-> Len(its),
     nexts   |-> [i \in 1..Len(its) |-> i],
     iters   |-> [i \in 1..Len(its) |-> 0]]

\* A plausible slip: the new cycle is cut from the start of the old one, the
\* exhausted source included.
IsliceCycle_FromStart(nexts, pending) == SubSeq(nexts, 1, pending)

\* nexts = cycle(islice(nexts, pending)): the next `pending` entries of the
\* old cycle, which stands just after the source that raised StopIteration.
IsliceCycle(nexts, pending) ==
    SubSeq(Tail(nexts) \o <<Head(nexts)>>, 1, pending)

\* The source whose turn it is has an item left.
HasNext(st, its) == st.iters[Head(st.nexts)] < its[Head(st.nexts)].len

RECURSIVE RRNext(_, _)
\* One next() of the generator: the item yielded (or stop) and the new state.
RRNext(st, its) ==
    IF st.pending = 0
    THEN [stop |-> TRUE, item |-> [qt |-> 0, tile |-> 0], st |-> st]
    ELSE LET i == Head(st.nexts) IN
         IF HasNext(st, its)
         THEN [stop |-> FALSE,
               item |-> [qt |-> its[i].qt, tile |-> st.iters[i]],
               st   |-> [st EXCEPT !.nexts = Tail(st.nexts) \o <<i>>,
                                   !.iters[i] = st.iters[i] + 1]]
         ELSE \* st2 is bound through a one-element set: computed once
              CHOOSE r \in
                {RRNext(st2, its) :
                   st2 \in {[st EXCEPT
                               !.pending = st.pending - 1,
                               !.nexts = IsliceCycle(st.nexts,
                                                     st.pending - 1)]}} : TRUE

\* ------------------------------------------------------------- batchers
\* job[0] = job[0]._render_index
Fixup(job) == [job EXCEPT !.qt = render_index[job.qt]]

\* A plausible slip: > for >=, which makes batches of batch_size + 1 jobs.
BatchFull_Late(jobcount, b) == jobcount > b

\* if jobcount >= batch_size
BatchFull(jobcount, b) == jobcount >= b

RECURSIVE FillBatch(_, _, _, _)
\* _apply_render_worldtiles / _apply_render_inntertile from one yield to the
\* next: jobs are taken from roundrobin until the batch is full or the jobs
\* end.  batch = <<>> in the result means the generator has ended.
FillBatch(st, its, batch, b) ==
    \* r, the result of next(), is bound through a one-element set
    CHOOSE f \in
      {IF r.stop THEN [batch |-> batch, st |-> r.st]
       ELSE IF BatchFull(Len(batch) + 1, b)
            THEN [batch |-> Append(batch, Fixup(r.item)), st |-> r.st]
            ELSE FillBatch(r.st, its, Append(batch, Fixup(r.item)), b) :
         r \in {RRNext(st, its)}} : TRUE

\* iterables = [q.get_worldtiles() for q in self.quadtrees]
WorldIterables(qs) == [i \in 1..Len(qs) |-> [qt |-> i, len |-> Pow4(qs[i])]]

\* iterables = [q.get_innertiles(zoom) for q in self.quadtrees if zoom <= q.p]
InnerIterables(qs, z) ==
    LET sel == SelectSeq2(qs, z)
    IN [k \in 1..Len(sel) |-> [qt |-> sel[k], len |-> Pow4(z)]]

\* ---------------------------------------------------------------- totals
\* total += 4**q.p for every quadtree
BaseTotal(qs) == SeqSum([i \in 1..Len(qs) |-> Pow4(qs[i])])
\* A plausible slip: < for <=, which leaves out the quadtrees of depth z.
InnerTotal_Strict(qs, z) ==
    SeqSum([i \in 1..Len(qs) |-> IF z < qs[i] THEN Pow4(z) ELSE 0])

\* total += 4**zoom for every quadtree with zoom <= q.p
InnerTotal(qs, z) == SeqSum([i \in 1..Len(qs) |-> IF z <= qs[i] THEN Pow4(z) ELSE 0])

\* ----------------------------------------------------------- exceptions
\* What executing a batch can do: return its count or raise.
Outcomes == {"ok", "RenderError", "KeyboardInterrupt"}

\* A plausible slip: the KeyboardInterrupt is re-raised as it is.
catch_keyboardinterrupt_Reraises(outcome) == outcome

\* catch_keyboardinterrupt: KeyboardInterrupt becomes Exception("Exiting"),
\* anything else is re-raised, a return value is returned.
catch_keyboardinterrupt(outcome) ==
    IF outcome = "KeyboardInterrupt" THEN "Exiting" ELSE outcome

\* multiprocessing.Pool: an ordinary exception of the task is stored in the
\* result object; a KeyboardInterrupt in a worker is not, and the result
\* never arrives.
PoolStatus(outcome) ==
    IF outcome = "ok" THEN "done"
    ELSE IF outcome = "KeyboardInterrupt" THEN "lost"
    ELSE "failed"

NoLine == [complete |-> 0, total |-> 0, level |-> 0, max_p |-> 0,
           unconditional |-> FALSE]
NoBatch == <<>>
NoRR == [pending |-> 0, nexts |-> <<>>, iters |-> <<>>]

\* count += 1 for every job of the batch; return count
BatchCount(batch) == Len(batch)

\* A plausible slip: get returns 1 per batch instead of the stored count.
FakeResultGet_One(res) == 1

\* FakeResult.get: return self.res
FakeResultGet(res) == res

\* multiprocessing's AsyncResult.get of a batch that ended: its return value
AsyncResultGet(res) == res

\* ------------------------------------------------------------------ Init
\* The runs explored: every list of 1..MaxQuadtrees quadtrees of depth
\* 1..MaxP with the fallback pool and with the concurrent pool, a run of a
\* shallow and a deep quadtree with either pool, and one high-volume run
\* (HighQuadtrees quadtrees of depth HighP, fallback pool).
Runs ==
    {[qs |-> qs, procs |-> pr] :
        qs \in SeqsUpTo(1..MaxP, MaxQuadtrees), pr \in {1, ManyProcs}}
    \cup {[qs |-> <<1, MixedP>>, procs |-> pr] : pr \in {1, ManyProcs}}
    \cup {[qs |-> [i \in 1..HighQuadtrees |-> HighP], procs |-> 1]}

\* RenderNode.__init__ has run: q._render_index = i for the i-th quadtree,
\* counting from 0.
Init ==
    \E run \in Runs :
        /\ quadtrees = run.qs
        /\ render_index = [i \in 1..Len(run.qs) |-> i - 1]
        /\ procs = run.procs
        /\ pc = "start"
        /\ clock = 0
        /\ max_p = 0 /\ total = 0 /\ complete = 0 /\ level = 0 /\ zoom = 0
        /\ batch_size = 0 /\ timestamp = 0 /\ count_to_remove = 0
        /\ results = <<>>
        /\ handles = <<>>
        /\ nextid = 1
        /\ iterables = <<>>
        /\ rr = NoRR
        /\ merged = <<>>
        /\ lastbatch = NoBatch
        /\ nbatch = 0
        /\ lastline = NoLine
        /\ roots = [i \in 1..Len(run.qs) |-> 0]
        /\ rooti = 0
        /\ closed = FALSE
        /\ error = "none"
        /\ raisedat = "none"
        /\ faillevel = 0
        /\ qlen0 = -1
        /\ drained = 0
        /\ lastget = 0
        /\ finished = {}

\* -------------------------------------------------------------- go: setup
\* go, up to the first request for a batch: the pool is created, max_p and
\* total are computed, the queue is created, batch_size is computed, the
\* time is read and the generator of the base pass is created.
Go ==
    /\ pc = "start"
    /\ pc' = "gen"
    /\ max_p' = SeqMax(quadtrees)
    /\ total' = BaseTotal(quadtrees)
    /\ results' = <<>>
    /\ complete' = 0
    /\ batch_size' = BatchSize(Len(quadtrees))
    /\ timestamp' = clock
    /\ level' = 1
    /\ zoom' = 0
    /\ iterables' = WorldIterables(quadtrees)
    /\ rr' = RRStart(WorldIterables(quadtrees))
    /\ nbatch' = 0
    /\ UNCHANGED <<quadtrees, render_index, procs, clock, count_to_remove,
                   handles, nextid, merged, lastbatch, lastline, roots, rooti,
                   closed, error, raisedat, faillevel, qlen0, drained, lastget,
                   finished>>

\* The batch the batcher yields next (<<>> when the jobs have ended).
NextFill == FillBatch(rr, iterables, <<>>,
                      BatcherSize(batch_size, Len(quadtrees)))

\* The handles other than h.
Without(h) == [x \in (DOMAIN handles) \ {h} |-> handles[x]]

\* A new result object.
With(h, rec) == [x \in (DOMAIN handles) \cup {h} |->
                    IF x = h THEN rec ELSE handles[x]]

\* The batcher has no job left: the for loop over its results ends.
GenEnd ==
    /\ pc = "gen"
    /\ NextFill.batch = <<>>
    /\ pc' = "finaldrain"
    /\ rr' = NextFill.st
    /\ UNCHANGED <<quadtrees, render_index, procs, clock, max_p, total,
                   complete, level, zoom, batch_size, timestamp,
                   count_to_remove, results, handles, nextid, iterables,
                   merged, lastbatch, nbatch, lastline, roots, rooti, closed,
                   error, raisedat, faillevel, qlen0, drained, lastget,
                   finished>>

\* FakePool.apply_async: the batch is executed inside the call; its count is
\* wrapped in a FakeResult, which go appends to the queue.  An exception of
\* the batch leaves apply_async, the generator and go.
SubmitFake ==
    /\ pc = "gen"
    /\ procs = 1
    /\ NextFill.batch # <<>>
    /\ rr' = NextFill.st
    /\ lastbatch' = NextFill.batch
    /\ nbatch' = nbatch + 1
    /\ \E outcome \in Outcomes :
         LET exc == catch_keyboardinterrupt(outcome) IN
         IF exc = "ok"
         THEN /\ handles' = With(nextid,
                                 [level |-> level, batch |-> NoBatch,
                                  status |-> "done",
                                  res |-> BatchCount(NextFill.batch),
                                  exc |-> "none"])
              /\ results' = Append(results, nextid)
              /\ nextid' = nextid + 1
              /\ pc' = "timecheck"
              /\ UNCHANGED <<error, raisedat, faillevel>>
         ELSE /\ pc' = "raised"
              /\ error' = exc
              /\ raisedat' = "apply_async"
              /\ faillevel' = IF faillevel = 0 THEN level ELSE faillevel
              /\ UNCHANGED <<handles, results, nextid>>
    /\ UNCHANGED <<quadtrees, render_index, procs, clock, max_p, total,
                   complete, level, zoom, batch_size, timestamp,
                   count_to_remove, iterables, merged, lastline, roots, rooti,
                   closed, qlen0, drained, lastget, finished>>

\* multiprocessing.Pool.apply_async: the batch is queued for the workers and
\* a result object is returned at once, which go appends to the queue.
SubmitPool ==
    /\ pc = "gen"
    /\ procs > 1
    /\ NextFill.batch # <<>>
    /\ rr' = NextFill.st
    /\ lastbatch' = NextFill.batch
    /\ nbatch' = nbatch + 1
    /\ handles' = With(nextid,
                       [level |-> level, batch |-> NextFill.batch,
                        status |-> "queued", res |-> 0, exc |-> "none"])
    /\ results' = Append(results, nextid)
    /\ nextid' = nextid + 1
    /\ pc' = "timecheck"
    /\ UNCHANGED <<quadtrees, render_index, procs, clock, max_p, total,
                   complete, level, zoom, batch_size, timestamp,
                   count_to_remove, iterables, merged, lastline, roots, rooti,
                   closed, error, raisedat, faillevel, qlen0, drained, lastget,
                   finished>>

\* ---------------------------------------------------------------- workers
\* A worker of the pool takes the oldest queued batch.
WorkerStart ==
    /\ procs > 1
    /\ \E h \in DOMAIN handles :
         /\ handles[h].status = "queued"
         /\ \A g \in DOMAIN handles : handles[g].status = "queued" => h <= g
         /\ Cardinality({g \in DOMAIN handles : handles[g].status = "running"})
              < procs
         /\ handles' = [handles EXCEPT ![h].status = "running"]
    /\ UNCHANGED <<quadtrees, render_index, procs, pc, clock, max_p, total,
                   complete, level, zoom, batch_size, timestamp,
                   count_to_remove, results, nextid, iterables, rr, merged,
                   lastbatch, nbatch, lastline, roots, rooti, closed, error,
                   raisedat, faillevel, qlen0, drained, lastget, finished>>

\* A worker ends render_worldtile_batch / render_innertile_batch, wrapped in
\* catch_keyboardinterrupt: the count or the exception reaches the result
\* object.
WorkerFinish ==
    /\ procs > 1
    /\ \E h \in DOMAIN handles, outcome \in Outcomes :
         LET exc == catch_keyboardinterrupt(outcome) IN
         /\ handles[h].status = "running"
         /\ handles' = [handles EXCEPT
                          ![h].status = PoolStatus(exc),
                          ![h].res = IF exc = "ok"
                                     THEN BatchCount(handles[h].batch) ELSE 0,
                          ![h].exc = IF exc = "ok" THEN "none" ELSE exc]
         /\ faillevel' = IF exc # "ok" /\ faillevel = 0
                         THEN handles[h].level ELSE faillevel
    /\ UNCHANGED <<quadtrees, render_index, procs, pc, clock, max_p, total,
                   complete, level, zoom, batch_size, timestamp,
                   count_to_remove, results, nextid, iterables, rr, merged,
                   lastbatch, nbatch, lastline, roots, rooti, closed, error,
                   raisedat, qlen0, drained, lastget, finished>>

\* ------------------------------------------------------------ go: drains
\* A plausible slip: pop() for popleft(), which takes the newest handle.
Popleft_Right(q) == q[Len(q)]

\* The handle popleft() returns.
Popleft(q) == Head(q)

\* What get() of a handle whose batch ended returns, by kind of pool.
GetValue(h) ==
    IF procs = 1 THEN FakeResultGet(handles[h].res)
    ELSE AsyncResultGet(handles[h].res)

\* complete += results.popleft().get(); self.print_statusline(complete,
\* total, lvl): get() waits for the batch to end, and raises its exception.
\* The scheduler goes on at nextpc.
Get(lvl, nextpc) ==
    /\ results # <<>>
    /\ handles[Popleft(results)].status \in {"done", "failed"}
    /\ results' = Tail(results)
    /\ handles' = Without(Popleft(results))
    /\ lastget' = Popleft(results)
    /\ IF handles[Popleft(results)].status = "done"
       THEN /\ complete' = complete + GetValue(Popleft(results))
            /\ lastline' = print_statusline(
                               complete + GetValue(Popleft(results)),
                               total, lvl, FALSE)
            /\ pc' = nextpc
            /\ UNCHANGED <<error, raisedat>>
       ELSE /\ pc' = "raised"
            /\ error' = handles[Popleft(results)].exc
            /\ raisedat' = "get"
            /\ UNCHANGED <<complete, lastline>>

\* timestamp2 = time.time(); if a second has passed, timestamp is updated
\* and count_to_remove handles are to be resolved, provided the queue is
\* longer than that.
TimeCheck ==
    /\ pc = "timecheck"
    /\ IF SecondElapsed(clock, timestamp)
       THEN /\ timestamp' = clock
            /\ count_to_remove' = CountToRemove(batch_size)
            /\ qlen0' = Len(results)
            /\ drained' = 0
            /\ pc' = IF /\ TimeDrainRuns(CountToRemove(batch_size), Len(results))
                        /\ CountToRemove(batch_size) > 0
                     THEN "timedrain" ELSE "sizecheck"
       ELSE /\ pc' = "sizecheck"
            /\ qlen0' = -1
            /\ drained' = 0
            /\ UNCHANGED <<timestamp, count_to_remove>>
    /\ UNCHANGED <<quadtrees, render_index, procs, clock, max_p, total,
                   complete, level, zoom, batch_size, results, handles, nextid,
                   iterables, rr, merged, lastbatch, nbatch, lastline, roots,
                   rooti, closed, error, raisedat, faillevel, lastget,
                   finished>>

\* The level the time-based drain passes to print_statusline: 1 in the base
\* pass and in the inner passes.
TimeDrainLevel == 1

\* One turn of: while count_to_remove > 0
TimeDrain ==
    /\ pc = "timedrain"
    /\ count_to_remove > 0
    /\ count_to_remove' = count_to_remove - 1
    /\ drained' = drained + 1
    /\ Get(TimeDrainLevel,
           IF count_to_remove - 1 > 0 THEN "timedrain" ELSE "sizecheck")
    /\ UNCHANGED <<quadtrees, render_index, procs, clock, max_p, total, level,
                   zoom, batch_size, timestamp, nextid, iterables, rr, merged,
                   lastbatch, nbatch, roots, rooti, closed, faillevel, qlen0,
                   finished>>

\* if len(results) > 10000//batch_size: the size-based drain starts
SizeCheck ==
    /\ pc = "sizecheck"
    /\ pc' = IF /\ SizeDrainStarts(Len(results), batch_size)
                /\ SizeDrainGoesOn(Len(results), batch_size)
             THEN "sizedrain" ELSE "gen"
    /\ UNCHANGED <<quadtrees, render_index, procs, clock, max_p, total,
                   complete, level, zoom, batch_size, timestamp,
                   count_to_remove, results, handles, nextid, iterables, rr,
                   merged, lastbatch, nbatch, lastline, roots, rooti, closed,
                   error, raisedat, faillevel, qlen0, drained, lastget,
                   finished>>

\* One turn of: while len(results) > 500//batch_size
SizeDrain ==
    /\ pc = "sizedrain"
    /\ Get(level,
           IF SizeDrainGoesOn(Len(results) - 1, batch_size)
           THEN "sizedrain" ELSE "gen")
    /\ UNCHANGED <<quadtrees, render_index, procs, clock, max_p, total, level,
                   zoom, batch_size, timestamp, count_to_remove, nextid,
                   iterables, rr, merged, lastbatch, nbatch, roots, rooti,
                   closed, faillevel, qlen0, drained, finished>>

\* One turn of: while len(results) > 0, after the jobs of the level ended
FinalDrain ==
    /\ pc = "finaldrain"
    /\ FinalDrainGoesOn(Len(results))
    /\ Get(level, "finaldrain")
    /\ UNCHANGED <<quadtrees, render_index, procs, clock, max_p, total, level,
                   zoom, batch_size, timestamp, count_to_remove, nextid,
                   iterables, rr, merged, lastbatch, nbatch, roots, rooti,
                   closed, faillevel, qlen0, drained, finished>>

\* A plausible slip: xrange(self.max_p-1, 1, -1), which leaves out zoom 1.
NextZoom_SkipsLast(z, mp) ==
    IF z = 0 THEN (IF mp - 1 > 1 THEN mp - 1 ELSE 0)
    ELSE (IF z - 1 > 1 THEN z - 1 ELSE 0)

\* The zoom after z in: for zoom in xrange(self.max_p-1, 0, -1); z = 0 is
\* the base pass, and 0 as a result means the loop has ended.
NextZoom(z, mp) == IF z = 0 THEN (IF mp - 1 > 0 THEN mp - 1 ELSE 0) ELSE z - 1

\* The queue is empty: the unconditional progress line of the level is
\* logged and the loop over zoom goes to its next turn, or ends.
LevelEnd ==
    /\ pc = "finaldrain"
    /\ ~FinalDrainGoesOn(Len(results))
    /\ lastline' = print_statusline(complete, total, level, TRUE)
    /\ finished' = finished \cup {level}
    /\ IF NextZoom(zoom, max_p) >= 1
       THEN /\ pc' = "levelstart"
            /\ zoom' = NextZoom(zoom, max_p)
       ELSE /\ pc' = "close"
            /\ UNCHANGED zoom
    /\ UNCHANGED <<quadtrees, render_index, procs, clock, max_p, total,
                   complete, level, batch_size, timestamp, count_to_remove,
                   results, handles, nextid, iterables, rr, merged, lastbatch,
                   nbatch, roots, rooti, closed, error, raisedat, faillevel,
                   qlen0, drained, lastget>>

\* level = self.max_p - zoom + 1
LevelOf(z, mp) == mp - z + 1

\* The top of a turn of the loop over zoom: the assertion, the counters of
\* the level, the time and the generator of the inner pass.
LevelStart ==
    /\ pc = "levelstart"
    /\ level' = LevelOf(zoom, max_p)
    /\ IF Len(results) = 0
       THEN /\ pc' = "gen"
            /\ complete' = 0
            /\ total' = InnerTotal(quadtrees, zoom)
            /\ timestamp' = clock
            /\ iterables' = InnerIterables(quadtrees, zoom)
            /\ rr' = RRStart(InnerIterables(quadtrees, zoom))
            /\ nbatch' = 0
            /\ UNCHANGED <<error, raisedat>>
       ELSE /\ pc' = "raised"
            /\ error' = "AssertionError"
            /\ raisedat' = "assert"
            /\ UNCHANGED <<complete, total, timestamp, iterables, rr, nbatch>>
    /\ UNCHANGED <<quadtrees, render_index, procs, clock, max_p, zoom,
                   batch_size, count_to_remove, results, handles, nextid,
                   merged, lastbatch, lastline, roots, rooti, closed,
                   faillevel, qlen0, drained, lastget, finished>>

\* A plausible slip: go reaches the root tiles without pool.close() and
\* pool.join().
Close_NoShutdown ==
    /\ pc = "close"
    /\ rooti' = 1
    /\ pc' = "root"
    /\ UNCHANGED <<quadtrees, render_index, procs, clock, max_p, total,
                   complete, level, zoom, batch_size, timestamp,
                   count_to_remove, results, handles, nextid, iterables, rr,
                   merged, lastbatch, nbatch, lastline, roots, closed, error,
                   raisedat, faillevel, qlen0, drained, lastget, finished>>

\* pool.close(); pool.join(): join returns when the workers have no batch
\* left.
Close ==
    /\ pc = "close"
    /\ \A h \in DOMAIN handles : handles[h].status \notin {"queued", "running"}
    /\ closed' = TRUE
    /\ rooti' = 1
    /\ pc' = "root"
    /\ UNCHANGED <<quadtrees, render_index, procs, clock, max_p, total,
                   complete, level, zoom, batch_size, timestamp,
                   count_to_remove, results, handles, nextid, iterables, rr,
                   merged, lastbatch, nbatch, lastline, roots, error, raisedat,
                   faillevel, qlen0, drained, lastget, finished>>

\* One turn of: for q in quadtrees: q.render_innertile(..., "base"), in the
\* scheduler's thread; an exception of the render leaves go.
RenderRoot ==
    /\ pc = "root"
    /\ \E outcome \in Outcomes :
         IF outcome = "ok"
         THEN /\ roots' = [roots EXCEPT ![rooti] = roots[rooti] + 1]
              /\ rooti' = rooti + 1
              /\ pc' = IF rooti + 1 > Len(quadtrees) THEN "done" ELSE "root"
              /\ UNCHANGED <<error, raisedat>>
         ELSE /\ pc' = "raised"
              /\ error' = outcome
              /\ raisedat' = "root"
              /\ UNCHANGED <<roots, rooti>>
    /\ UNCHANGED <<quadtrees, render_index, procs, clock, max_p, total,
                   complete, level, zoom, batch_size, timestamp,
                   count_to_remove, results, handles, nextid, iterables, rr,
                   merged, lastbatch, nbatch, lastline, closed, faillevel,
                   qlen0, drained, lastget, finished>>

\* A second passes while go runs (the clock is read by go only).
Tick ==
    /\ pc \notin {"new", "start", "done", "raised", "rr", "rrdone"}
    /\ clock < MaxClock
    /\ clock' = clock + 1
    /\ UNCHANGED <<quadtrees, render_index, procs, pc, max_p, total, complete,
                   level, zoom, batch_size, timestamp, count_to_remove,
                   results, handles, nextid, iterables, rr, merged, lastbatch,
                   nbatch, lastline, roots, rooti, closed, error, raisedat,
                   faillevel, qlen0, drained, lastget, finished>>

Next ==
    \/ Go
    \/ GenEnd
    \/ SubmitFake
    \/ SubmitPool
    \/ WorkerStart
    \/ WorkerFinish
    \/ TimeCheck
    \/ TimeDrain
    \/ SizeCheck
    \/ SizeDrain
    \/ FinalDrain
    \/ LevelEnd
    \/ LevelStart
    \/ Close
    \/ RenderRoot
    \/ Tick

Spec == Init /\ [][Next]_vars

\* ------------------------------------------------------------ construction
\* A plausible slip: the index counts from 1.
RenderIndexOf_FromOne(i) == i

\* The _render_index given to the i-th quadtree of the list (i from 1):
\* i = 0; for q in quadtrees: q._render_index = i; i += 1
RenderIndexOf(i) == i - 1

\* rendernode.quadtrees[job[0]] in a worker: the place (from 1) in the list
\* of the quadtree that index idx names.
WorkerQuadtree(idx) == idx + 1

\* Before RenderNode(world, quadtrees): any list of the runs, or no
\* quadtree at all; no quadtree has a _render_index yet.
InitNew ==
    \E run \in Runs \cup {[qs |-> <<>>, procs |-> pr] : pr \in {1, ManyProcs}} :
        /\ quadtrees = run.qs
        /\ render_index = <<>>
        /\ procs = run.procs
        /\ pc = "new"
        /\ clock = 0
        /\ max_p = 0 /\ total = 0 /\ complete = 0 /\ level = 0 /\ zoom = 0
        /\ batch_size = 0 /\ timestamp = 0 /\ count_to_remove = 0
        /\ results = <<>> /\ handles = <<>> /\ nextid = 1
        /\ iterables = <<>> /\ rr = NoRR /\ merged = <<>>
        /\ lastbatch = NoBatch /\ nbatch = 0 /\ lastline = NoLine
        /\ roots = [i \in 1..Len(run.qs) |-> 0]
        /\ rooti = 0 /\ closed = FALSE
        /\ error = "none" /\ raisedat = "none" /\ faillevel = 0
        /\ qlen0 = -1 /\ drained = 0 /\ lastget = 0 /\ finished = {}

\* RenderNode.__init__: ValueError for an empty list, else every quadtree
\* gets its index.
Construct ==
    /\ pc = "new"
    /\ IF ~(Len(quadtrees) > 0)
       THEN /\ pc' = "raised"
            /\ error' = "ValueError"
            /\ raisedat' = "__init__"
            /\ UNCHANGED render_index
       ELSE /\ pc' = "start"
            /\ render_index' = [i \in 1..Len(quadtrees) |-> RenderIndexOf(i)]
            /\ UNCHANGED <<error, raisedat>>
    /\ UNCHANGED <<quadtrees, procs, clock, max_p, total, complete, level,
                   zoom, batch_size, timestamp, count_to_remove, results,
                   handles, nextid, iterables, rr, merged, lastbatch, nbatch,
                   lastline, roots, rooti, closed, faillevel, qlen0, drained,
                   lastget, finished>>

NextSetup ==
    \/ Construct
    \/ Next

\* The run from the construction of the RenderNode on.
SpecSetup == InitNew /\ [][NextSetup]_vars

\* -------------------------------------------------------- go with fairness
\* The runs explored under fairness: the lists of 1..MaxQuadtrees quadtrees
\* of depth 1..MaxP with either pool, and a high-volume run of quadtrees of
\* depth LiveP.
RunsLive ==
    {[qs |-> qs, procs |-> pr] :
        qs \in SeqsUpTo(1..MaxP, MaxQuadtrees), pr \in {1, ManyProcs}}
    \cup {[qs |-> [i \in 1..HighQuadtrees |-> LiveP], procs |-> 1]}

InitLive ==
    \E run \in RunsLive :
        /\ quadtrees = run.qs
        /\ render_index = [i \in 1..Len(run.qs) |-> i - 1]
        /\ procs = run.procs
        /\ pc = "start"
        /\ clock = 0
        /\ max_p = 0 /\ total = 0 /\ complete = 0 /\ level = 0 /\ zoom = 0
        /\ batch_size = 0 /\ timestamp = 0 /\ count_to_remove = 0
        /\ results = <<>> /\ handles = <<>> /\ nextid = 1
        /\ iterables = <<>> /\ rr = NoRR /\ merged = <<>>
        /\ lastbatch = NoBatch /\ nbatch = 0 /\ lastline = NoLine
        /\ roots = [i \in 1..Len(run.qs) |-> 0]
        /\ rooti = 0 /\ closed = FALSE
        /\ error = "none" /\ raisedat = "none" /\ faillevel = 0
        /\ qlen0 = -1 /\ drained = 0 /\ lastget = 0 /\ finished = {}

\* go and the pool keep running: the scheduler's thread is never suspended
\* for ever, a worker that is free takes a queued batch, and a batch that
\* is being rendered ends.
FairSpec == InitLive /\ [][Next]_vars /\ WF_vars(Next)

\* --------------------------------------------------- roundrobin on its own
\* roundrobin(iterables) is called on a list of up to MaxSources sequences
\* of up to MaxLen items each; source i is named i and its items are
\* numbered from 0.
InitRR ==
    \E lens \in SeqsUpTo(0..MaxLen, MaxSources) \cup {<<>>} :
        /\ iterables = [i \in 1..Len(lens) |-> [qt |-> i, len |-> lens[i]]]
        /\ rr = RRStart([i \in 1..Len(lens) |-> [qt |-> i, len |-> lens[i]]])
        /\ merged = <<>>
        /\ pc = "rr"
        /\ quadtrees = <<>> /\ render_index = <<>> /\ procs = 1
        /\ clock = 0
        /\ max_p = 0 /\ total = 0 /\ complete = 0 /\ level = 0 /\ zoom = 0
        /\ batch_size = 0 /\ timestamp = 0 /\ count_to_remove = 0
        /\ results = <<>> /\ handles = <<>> /\ nextid = 1
        /\ lastbatch = NoBatch /\ nbatch = 0 /\ lastline = NoLine
        /\ roots = <<>> /\ rooti = 0 /\ closed = FALSE
        /\ error = "none" /\ raisedat = "none" /\ faillevel = 0
        /\ qlen0 = -1 /\ drained = 0 /\ lastget = 0 /\ finished = {}

\* The consumer takes the next item of the generator.
RRTake ==
    /\ pc = "rr"
    /\ ~RRNext(rr, iterables).stop
    /\ merged' = Append(merged, RRNext(rr, iterables).item)
    /\ rr' = RRNext(rr, iterables).st
    /\ UNCHANGED <<quadtrees, render_index, procs, pc, clock, max_p, total,
                   complete, level, zoom, batch_size, timestamp,
                   count_to_remove, results, handles, nextid, iterables,
                   lastbatch, nbatch, lastline, roots, rooti, closed, error,
                   raisedat, faillevel, qlen0, drained, lastget, finished>>

\* The generator ends: pending has reached 0.
RRStop ==
    /\ pc = "rr"
    /\ RRNext(rr, iterables).stop
    /\ rr' = RRNext(rr, iterables).st
    /\ pc' = "rrdone"
    /\ UNCHANGED <<quadtrees, render_index, procs, clock, max_p, total,
                   complete, level, zoom, batch_size, timestamp,
                   count_to_remove, results, handles, nextid, iterables,
                   merged, lastbatch, nbatch, lastline, roots, rooti, closed,
                   error, raisedat, faillevel, qlen0, drained, lastget,
                   finished>>

NextRR ==
    \/ RRTake
    \/ RRStop

SpecRR == InitRR /\ [][NextRR]_vars

\* ------------------------------------------------- the batchers on their own
\* _apply_render_worldtiles(pool, batch_size) (level 1) or
\* _apply_render_inntertile(pool, zoom, batch_size) (level 2) is called on
\* a RenderNode of 1..MaxQuadtrees quadtrees with a batch size of
\* 1..MaxBatchSize; merged collects the jobs of the batches it submits.
InitBatch ==
    \E qs \in SeqsUpTo(1..MaxP, MaxQuadtrees), b \in 1..MaxBatchSize,
       z \in 0..MaxP :
        /\ quadtrees = qs
        /\ render_index = [i \in 1..Len(qs) |-> i - 1]
        /\ batch_size = b
        /\ zoom = z
        /\ level = IF z = 0 THEN 1 ELSE 2
        /\ iterables = IF z = 0 THEN WorldIterables(qs)
                       ELSE InnerIterables(qs, z)
        /\ rr = RRStart(IF z = 0 THEN WorldIterables(qs)
                        ELSE InnerIterables(qs, z))
        /\ merged = <<>>
        /\ lastbatch = NoBatch
        /\ nbatch = 0
        /\ pc = "batch"
        /\ procs = 1 /\ clock = 0
        /\ max_p = 0 /\ total = 0 /\ complete = 0
        /\ timestamp = 0 /\ count_to_remove = 0
        /\ results = <<>> /\ handles = <<>> /\ nextid = 1
        /\ lastline = NoLine
        /\ roots = [i \in 1..Len(qs) |-> 0] /\ rooti = 0 /\ closed = FALSE
        /\ error = "none" /\ raisedat = "none" /\ faillevel = 0
        /\ qlen0 = -1 /\ drained = 0 /\ lastget = 0 /\ finished = {}

\* The batcher yields: a batch has been handed to pool.apply_async.
BatchYield ==
    /\ pc = "batch"
    /\ NextFill.batch # <<>>
    /\ rr' = NextFill.st
    /\ lastbatch' = NextFill.batch
    /\ merged' = merged \o NextFill.batch
    /\ nbatch' = nbatch + 1
    /\ UNCHANGED <<quadtrees, render_index, procs, pc, clock, max_p, total,
                   complete, level, zoom, batch_size, timestamp,
                   count_to_remove, results, handles, nextid, iterables,
                   lastline, roots, rooti, closed, error, raisedat, faillevel,
                   qlen0, drained, lastget, finished>>

\* The batcher ends.
BatchStop ==
    /\ pc = "batch"
    /\ NextFill.batch = <<>>
    /\ rr' = NextFill.st
    /\ pc' = "batchdone"
    /\ UNCHANGED <<quadtrees, render_index, procs, clock, max_p, total,
                   complete, level, zoom, batch_size, timestamp,
                   count_to_remove, results, handles, nextid, iterables,
                   merged, lastbatch, nbatch, lastline, roots, rooti, closed,
                   error, raisedat, faillevel, qlen0, drained, lastget,
                   finished>>

NextBatch ==
    \/ BatchYield
    \/ BatchStop

SpecBatch == InitBatch /\ [][NextBatch]_vars

\* ------------------------------------------- print_statusline on its own
\* print_statusline is about to be called with complete in 0..MaxComplete,
\* a total, and a level of a run of two levels.
InitSL ==
    \E c \in 0..MaxComplete, l \in 1..2 :
        /\ complete = c
        /\ total = MaxComplete
        /\ level = l
        /\ max_p = 2
        /\ lastline = NoLine
        /\ pc = "sl"
        /\ quadtrees = <<>> /\ render_index = <<>> /\ procs = 1
        /\ clock = 0 /\ zoom = 0
        /\ batch_size = 0 /\ timestamp = 0 /\ count_to_remove = 0
        /\ results = <<>> /\ handles = <<>> /\ nextid = 1
        /\ iterables = <<>> /\ rr = NoRR /\ merged = <<>>
        /\ lastbatch = NoBatch /\ nbatch = 0
        /\ roots = <<>> /\ rooti = 0 /\ closed = FALSE
        /\ error = "none" /\ raisedat = "none" /\ faillevel = 0
        /\ qlen0 = -1 /\ drained = 0 /\ lastget = 0 /\ finished = {}

\* self.print_statusline(complete, total, level)
StatuslinePlain ==
    /\ pc = "sl"
    /\ lastline' = print_statusline(complete, total, level, FALSE)
    /\ pc' = "slplain"
    /\ UNCHANGED <<quadtrees, render_index, procs, clock, max_p, total,
                   complete, level, zoom, batch_size, timestamp,
                   count_to_remove, results, handles, nextid, iterables, rr,
                   merged, lastbatch, nbatch, roots, rooti, closed, error,
                   raisedat, faillevel, qlen0, drained, lastget, finished>>

\* self.print_statusline(complete, total, level, True)
StatuslineForced ==
    /\ pc = "sl"
    /\ lastline' = print_statusline(complete, total, level, TRUE)
    /\ pc' = "slforced"
    /\ UNCHANGED <<quadtrees, render_index, procs, clock, max_p, total,
                   complete, level, zoom, batch_size, timestamp,
                   count_to_remove, results, handles, nextid, iterables, rr,
                   merged, lastbatch, nbatch, roots, rooti, closed, error,
                   raisedat, faillevel, qlen0, drained, lastget, finished>>

NextSL ==
    \/ StatuslinePlain
    \/ StatuslineForced

SpecSL == InitSL /\ [][NextSL]_vars

\* ======================================================================
\* Properties
\* ======================================================================
Min(a, b) == IF a < b THEN a ELSE b

\* The number of jobs each quadtree has in level lvl of a run over qs: 4^p
\* leaf jobs in level 1, 4^zoom inner jobs in the level of zoom if its depth
\* is at least zoom, none otherwise.
LevelLens(qs, lvl) ==
    LET z == SeqMax(qs) - lvl + 1 IN
    [q \in 1..Len(qs) |->
        IF lvl = 1 THEN Pow4(qs[q])
        ELSE IF z <= qs[q] THEN Pow4(z) ELSE 0]

\* The place of item t (from 0) of source i in the interleaving of sources
\* of lengths lens, taken one item per source in turn in list order: after
\* the first t items of every source and after item t of the sources before
\* i that have one.
RefPos(lens, i, t) ==
    SeqSum([j \in 1..Len(lens) |-> Min(lens[j], t)])
    + Cardinality({j \in 1..(i - 1) : lens[j] > t}) + 1

\* The positions of go while the jobs of a level are being generated.
GenPcs == {"gen", "timecheck", "timedrain", "sizecheck", "sizedrain"}

\* ---------------------------------------------------------------------
\* C1.  Level barrier: every unresolved handle belongs to the level being
\* processed, so no batch of a coarser level is submitted (or begun by a
\* worker) while a handle of a finer level is unresolved; the queue is
\* empty at the top of every turn of the loop over zoom and the assertion
\* never fails.
C1_LevelBarrier ==
    /\ \A h \in DOMAIN handles : handles[h].level = level
    /\ pc = "levelstart" => (Len(results) = 0 /\ DOMAIN handles = {})
    /\ error # "AssertionError"

\* A batch of an inner level is being executed by a worker.
C1_Witness ==
    /\ level >= 2
    /\ \E h \in DOMAIN handles :
         handles[h].status = "running" /\ handles[h].level = level

\* ---------------------------------------------------------------------
\* C2.  In a run of go that returns, the root tile of every quadtree has
\* been rendered exactly once; no root tile is rendered twice, and none is
\* rendered before the base pass and every inner pass have ended with the
\* queue empty and every handle resolved.
C2_RootOnce ==
    /\ \A i \in DOMAIN roots : roots[i] <= 1
    /\ pc = "done" => \A i \in DOMAIN roots : roots[i] = 1
    /\ (pc = "root" \/ \E i \in DOMAIN roots : roots[i] > 0) =>
         /\ Len(results) = 0
         /\ DOMAIN handles = {}
         /\ finished = 1..max_p

\* go has returned after rendering the roots of two quadtrees, the deeper of
\* depth 2 at least, with the concurrent pool.
C2_Witness ==
    /\ pc = "done"
    /\ Len(quadtrees) >= 2
    /\ max_p >= 2
    /\ procs > 1

\* ---------------------------------------------------------------------
\* C3.  Fail-fast: once the execution of a batch has raised, go never
\* starts a later level, never shuts the pool down, renders no root tile
\* and does not return; when it ends, it ends with the batch's exception (a
\* KeyboardInterrupt seen by the worker arrives as the exception "Exiting");
\* a failed batch is never executed again, and after go has raised nothing
\* more is submitted.
C3_Inv ==
    faillevel # 0 =>
        /\ level = faillevel
        /\ pc \notin {"levelstart", "close", "root", "done"}
        /\ ~closed
        /\ \A i \in DOMAIN roots : roots[i] = 0
        /\ pc = "raised" => error \in {"RenderError", "Exiting"}
        /\ error \in {"none", "RenderError", "Exiting"}

C3_Step ==
    /\ \A h \in DOMAIN handles :
         handles[h].status = "failed" =>
            (h \notin DOMAIN handles' \/ handles'[h].status = "failed")
    /\ pc = "raised" =>
         /\ pc' = "raised"
         /\ nextid' = nextid
         /\ nbatch' = nbatch
         /\ error' = error

C3_FailFast == []C3_Inv /\ [][C3_Step]_vars

\* go has ended with the exception of a batch interrupted in a worker, which
\* surfaced when its handle was resolved.
C3_Witness ==
    /\ pc = "raised"
    /\ raisedat = "get"
    /\ error = "Exiting"
    /\ faillevel >= 1
    /\ procs > 1

\* ---------------------------------------------------------------------
\* C4 as stated.  While the jobs of a level are being generated, the state
\* just after an append included, the queue holds at most
\* floor(10000/batch_size) handles.
C4_Original ==
    pc \in GenPcs => Len(results) <= 10000 \div batch_size

\* C4 as amended.  While the jobs of a level are being generated the queue
\* holds at most floor(10000/batch_size) + 1 handles, and at most
\* floor(10000/batch_size) whenever the next batch is requested.
C4_QueueBound ==
    /\ pc \in GenPcs => Len(results) <= (10000 \div batch_size) + 1
    /\ pc = "gen" => Len(results) <= 10000 \div batch_size

\* A handle has just been appended and the queue is one above the
\* threshold.
C4_Witness ==
    /\ pc = "timecheck"
    /\ Len(results) = (10000 \div batch_size) + 1

\* ---------------------------------------------------------------------
\* C5 as stated.  A time-based drain that has run to its end has resolved
\* min(floor(1000/batch_size), queue length) handles.
C5_Original ==
    (pc = "sizecheck" /\ qlen0 >= 0) =>
        drained = Min(1000 \div batch_size, qlen0)

\* C5 as amended.  A time-based drain that has run to its end has resolved
\* exactly floor(1000/batch_size) handles, the oldest of the queue, if the
\* queue held more than floor(1000/batch_size) handles, and none otherwise.
C5_TimeDrain ==
    /\ (pc = "sizecheck" /\ qlen0 >= 0) =>
         /\ drained = IF qlen0 > 1000 \div batch_size
                      THEN 1000 \div batch_size ELSE 0
         /\ Len(results) = qlen0 - drained
    /\ (pc \in {"timedrain", "sizecheck"} /\ qlen0 >= 0) =>
         \A k \in 1..Len(results) : results[k] > lastget

\* A time-based drain has just resolved floor(1000/batch_size) handles.
C5_Witness ==
    /\ pc = "sizecheck"
    /\ qlen0 > 1000 \div batch_size
    /\ drained = 1000 \div batch_size
    /\ drained > 0

\* ---------------------------------------------------------------------
\* C6 as stated.  The batch size go computes is max(4*n, 10) for n
\* quadtrees.
C6_Original ==
    pc # "start" =>
        batch_size = (IF 4 * Len(quadtrees) > 10 THEN 4 * Len(quadtrees) ELSE 10)

\* C6 as amended.  The batch size go computes is 16 for one or two
\* quadtrees and 4*n for n >= 3 quadtrees.
C6_BatchSize ==
    pc # "start" =>
        batch_size = (IF Len(quadtrees) <= 2 THEN 16 ELSE 4 * Len(quadtrees))

\* go has computed the batch size 16 for two quadtrees.
C6_Witness ==
    /\ pc = "gen"
    /\ Len(quadtrees) = 2
    /\ batch_size = 16

\* ---------------------------------------------------------------------
\* C7.  The batch size is at least 10, is 4*n doubled as often as needed to
\* reach 10 and no more often (16 for one quadtree), is not below n, so
\* that the batchers use it as it is, and no batch of any level is larger.
C7_BatchSizeDoubling ==
    pc # "start" =>
        /\ batch_size >= 10
        /\ \E k \in 0..3 :
             /\ batch_size = 4 * Len(quadtrees) * (2 ^ k)
             /\ k > 0 => 4 * Len(quadtrees) * (2 ^ (k - 1)) < 10
        /\ Len(quadtrees) = 1 => batch_size = 16
        /\ batch_size >= Len(quadtrees)
        /\ BatcherSize(batch_size, Len(quadtrees)) = batch_size
        /\ nbatch > 0 => Len(lastbatch) <= batch_size

\* An inner pass of a run over one quadtree has submitted a batch, with the
\* batch size 16.
C7_Witness ==
    /\ Len(quadtrees) = 1
    /\ batch_size = 16
    /\ level >= 2
    /\ nbatch > 0

\* ---------------------------------------------------------------------
\* C8.  With the fallback pool and with the concurrent pool alike, under
\* any order of worker completions: every batch submitted (looked at in the
\* state that follows its apply_async) is the batch its
\* number and the quadtrees determine (job j of batch k of a level is the
\* job at place (k-1)*batch_size + j of the interleaving of the level's job
\* sequences), and a level ends with complete and total equal to the
\* number of jobs of the level and with the same number of batches.
C8_LevelJobs == SeqSum(LevelLens(quadtrees, level))

C8_PoolsAgree ==
    LET lens == LevelLens(quadtrees, level) IN
    /\ (pc = "timecheck" \/ (pc = "raised" /\ raisedat = "apply_async")) =>
         \A j \in 1..Len(lastbatch) :
            /\ lastbatch[j].tile < lens[lastbatch[j].qt + 1]
            /\ RefPos(lens, lastbatch[j].qt + 1, lastbatch[j].tile)
                 = (nbatch - 1) * batch_size + j
    /\ pc \in {"levelstart", "close", "root", "done"} =>
         /\ complete = SeqSum(lens)
         /\ total = SeqSum(lens)
         /\ (nbatch - 1) * batch_size < SeqSum(lens)
         /\ SeqSum(lens) <= nbatch * batch_size

\* A level of two batches or more has ended under the concurrent pool.
C8_Witness ==
    /\ procs > 1
    /\ pc \in {"levelstart", "close"}
    /\ nbatch >= 2

\* ---------------------------------------------------------------------
\* C9 as stated.  In both pools the exception of a batch reaches the
\* scheduler when the batch's handle is resolved with get(), and never out
\* of apply_async.
C9_RaisedOnlyAtGet ==
    (pc = "raised" /\ faillevel # 0) => raisedat = "get"

\* ---------------------------------------------------------------------
\* C10.  roundrobin: item k of the merged sequence is the item whose place
\* in the interleaving (one item of each source that has one left, in list
\* order, round after round) is k; when the generator ends every item of
\* every source has been yielded exactly once and in its source's order;
\* sources of lengths 3, 1, 2 give A0 B0 C0 A1 C1 A2.
C10_Lens == [i \in 1..Len(iterables) |-> iterables[i].len]

C10_RoundRobin ==
    /\ \A k \in 1..Len(merged) :
         /\ merged[k].qt \in 1..Len(iterables)
         /\ merged[k].tile < iterables[merged[k].qt].len
         /\ RefPos(C10_Lens, merged[k].qt, merged[k].tile) = k
    /\ \A k1, k2 \in 1..Len(merged) :
         (k1 < k2 /\ merged[k1].qt = merged[k2].qt) =>
            merged[k1].tile < merged[k2].tile
    /\ pc = "rrdone" =>
         /\ Len(merged) = SeqSum(C10_Lens)
         /\ \A i \in 1..Len(iterables) : \A t \in 0..(iterables[i].len - 1) :
              Cardinality({k \in 1..Len(merged) :
                              merged[k] = [qt |-> i, tile |-> t]}) = 1
         /\ C10_Lens = <<3, 1, 2>> =>
              merged = << [qt |-> 1, tile |-> 0], [qt |-> 2, tile |-> 0],
                          [qt |-> 3, tile |-> 0], [qt |-> 1, tile |-> 1],
                          [qt |-> 3, tile |-> 1], [qt |-> 1, tile |-> 2] >>

\* roundrobin has ended on sources of lengths 3, 1, 2.
C10_Witness ==
    /\ pc = "rrdone"
    /\ C10_Lens = <<3, 1, 2>>
    /\ Len(merged) = 6

\* ---------------------------------------------------------------------
\* C11 as stated: every root tile is rendered before the pool is shut down,
\* and shutting the pool down is the last action of go.  Violated: go shuts
\* the pool down first and renders the root tiles afterwards.
C11_Original ==
    closed => /\ pc = "done"
              /\ \A i \in 1..Len(roots) : roots[i] = 1

\* C11, amended.  The pool is shut down (close and join) after every level
\* has been drained and before any root tile is rendered; the root tiles
\* are rendered in list order once the pool is shut down, and go returns
\* when the last of them is rendered.
C11_ShutdownThenRoots ==
    /\ (pc = "root" \/ pc = "done" \/ \E i \in 1..Len(roots) : roots[i] > 0)
         => closed
    /\ closed => /\ finished = 1..max_p
                 /\ results = <<>>
                 /\ handles = <<>>
                 /\ pc \in {"root", "done", "raised"}
                 /\ \A i \in 1..Len(roots) :
                       roots[i] = (IF i < rooti THEN 1 ELSE 0)
    /\ pc = "done" => rooti = Len(quadtrees) + 1

\* The pool of a run with workers is shut down while two root tiles are
\* still to be rendered.
C11_Witness ==
    /\ closed
    /\ pc = "root"
    /\ procs > 1
    /\ Len(quadtrees) >= 2
    /\ \A i \in 1..Len(roots) : roots[i] = 0
    /\ nextid > 2

\* ---------------------------------------------------------------------
\* C12.  Setup.  With an empty list the constructor raises ValueError and
\* nothing else has happened: no pool, no level, no batch, no index.  With a
\* non-empty list the i-th quadtree (from 1) has index i - 1, so the indexes
\* are 0..n-1 in list order; quadtrees[index] in a worker is the quadtree
\* the index was given to, for every quadtree and for every job of a
\* submitted batch; and no step after the construction changes an index.
C12_Inv ==
    /\ quadtrees = <<>> =>
         /\ pc \in {"new", "raised"}
         /\ pc = "raised" <=> error = "ValueError"
    /\ error = "ValueError" =>
         /\ quadtrees = <<>> /\ raisedat = "__init__" /\ render_index = <<>>
         /\ level = 0 /\ batch_size = 0 /\ max_p = 0 /\ rr = NoRR
         /\ nextid = 1 /\ nbatch = 0 /\ lastbatch = NoBatch
         /\ results = <<>> /\ handles = <<>>
         /\ ~closed /\ rooti = 0
    /\ (quadtrees # <<>> /\ pc # "new") =>
         /\ error # "ValueError"
         /\ DOMAIN render_index = 1..Len(quadtrees)
         /\ \A i \in 1..Len(quadtrees) :
               /\ render_index[i] = i - 1
               /\ WorkerQuadtree(render_index[i]) = i
         /\ \A j \in 1..Len(lastbatch) :
               /\ WorkerQuadtree(lastbatch[j].qt) \in 1..Len(quadtrees)
               /\ render_index[WorkerQuadtree(lastbatch[j].qt)]
                    = lastbatch[j].qt

C12_Step == pc # "new" => render_index' = render_index

C12_Setup == []C12_Inv /\ [][C12_Step]_vars

\* A worker is given a job of the third quadtree of a list of three.
C12_Witness ==
    /\ Len(quadtrees) = 3
    /\ procs > 1
    /\ \E h \in DOMAIN handles :
         /\ handles[h].status = "running"
         /\ \E j \in 1..Len(handles[h].batch) :
               /\ handles[h].batch[j].qt = 2
               /\ WorkerQuadtree(handles[h].batch[j].qt) = 3

\* The constructor has refused an empty list.
C12_WitnessEmpty ==
    /\ quadtrees = <<>>
    /\ error = "ValueError"
    /\ pc = "raised"

\* ---------------------------------------------------------------------
\* C13.  print_statusline logs a line iff it is forced or complete is a
\* multiple of 25 below 100, of 100 from 100 to 999, of 1000 from 1000 on;
\* the line logged carries the complete, total and level of the call, and
\* for every other value of complete nothing is logged.
C13_Rule(c) ==
    \/ c < 100 /\ \E k \in 0..3 : c = 25 * k
    \/ 100 <= c /\ c < 1000 /\ \E k \in 1..9 : c = 100 * k
    \/ c >= 1000 /\ \E k \in 1..(c \div 1000) : c = 1000 * k

C13_Statusline ==
    /\ pc = "slforced" =>
         lastline = [complete |-> complete, total |-> total, level |-> level,
                     max_p |-> max_p, unconditional |-> TRUE]
    /\ pc = "slplain" =>
         IF C13_Rule(complete)
         THEN lastline = [complete |-> complete, total |-> total,
                          level |-> level, max_p |-> max_p,
                          unconditional |-> FALSE]
         ELSE lastline = NoLine

\* An unforced call with complete = 300 has logged its line.
C13_Witness ==
    /\ pc = "slplain"
    /\ complete = 300
    /\ lastline # NoLine
    /\ lastline.complete = 300

\* ---------------------------------------------------------------------
\* C14.  Termination: every run of go ends, either returned (the pool shut
\* down and every root tile rendered, the queue empty) or with an exception
\* raised; go does not wait for ever.
C14_Terminates ==
    <>(\/ /\ pc = "done"
          /\ closed
          /\ results = <<>>
          /\ \A i \in 1..Len(roots) : roots[i] = 1
       \/ /\ pc = "raised"
          /\ error # "none")

\* go has returned from a run with workers in which no batch failed.
C14_Witness ==
    /\ pc = "done"
    /\ procs > 1
    /\ max_p >= 2
    /\ error = "none"
    /\ faillevel = 0

\* ---------------------------------------------------------------------
\* C15 as stated: whenever the queue is longer than 10000 div batch_size
\* right after an append, it is exactly 500 div batch_size long when the
\* next batch is requested.  (qlen0 is the length right after the append,
\* kept when a second had passed.)  Violated: the time-based drain comes
\* between the append and the size check, and can bring the queue under
\* the threshold, so that the size-based drain does not run.
C15_Original ==
    (pc = "gen" /\ nbatch > 0 /\ qlen0 > 10000 \div batch_size)
        => Len(results) = 500 \div batch_size

\* C15, amended.  In the base pass and in the inner passes alike: at the
\* size check that follows an append (and the time-based drain, if it ran)
\* a queue longer than 10000 div batch_size starts the size-based drain and
\* a queue that is not leaves the queue as it is; the size-based drain
\* resolves the oldest handle, one per turn, and ends when the queue is
\* exactly 500 div batch_size long; a batch is submitted only when no
\* size-based drain is going on.
C15_Inv ==
    /\ pc = "sizedrain" => Len(results) > 500 \div batch_size
    /\ pc = "gen" => Len(results) <= 10000 \div batch_size

C15_Step ==
    /\ pc = "sizecheck" =>
         /\ results' = results
         /\ pc' = "sizedrain" => Len(results) > 10000 \div batch_size
         /\ pc' = "gen" => Len(results) <= 10000 \div batch_size
         /\ pc' \in {"sizecheck", "sizedrain", "gen"}
    /\ (pc = "sizedrain" /\ results' # results) =>
         /\ results' = Tail(results)
         /\ lastget' = Head(results)
         /\ pc' = "sizedrain" => Len(results') > 500 \div batch_size
         /\ pc' = "gen" => Len(results') = 500 \div batch_size
         /\ pc' \in {"sizedrain", "gen", "raised"}
    /\ (pc = "sizedrain" /\ results' = results) => pc' = "sizedrain"
    /\ nextid' # nextid => /\ pc = "gen"
                           /\ Len(results) <= 10000 \div batch_size

C15_SizeDrain == []C15_Inv /\ [][C15_Step]_vars

\* The size-based drain of an inner pass has just ended: the queue, which
\* was one over the threshold with no time-based drain in between, is
\* 500 div batch_size long and the next batch is about to be requested.
C15_Witness ==
    /\ pc = "gen"
    /\ level >= 2
    /\ qlen0 = -1
    /\ nbatch = 10000 \div batch_size + 1
    /\ Len(results) = 500 \div batch_size
    /\ lastget = nextid - 1 - 500 \div batch_size

\* ---------------------------------------------------------------------
\* C16.  The batchers.  With m the number of jobs of the sources and b the
\* batch size the batcher works with (the one it is given, or the number
\* of quadtrees if that is larger): batch k has b jobs if k <= m div b and
\* m mod b jobs otherwise, and is never empty; the jobs of the batches
\* submitted so far, in order, are the first jobs of the interleaving of
\* the sources, each once, each carrying the index of its quadtree; when
\* the batcher ends every job has been submitted.  A batcher takes its
\* jobs from sources of one kind: leaf jobs of every quadtree, or inner
\* jobs of one zoom.
C16_B == BatcherSize(batch_size, Len(quadtrees))

C16_M == SeqSum(C10_Lens)

C16_Batcher ==
    /\ nbatch > 0 =>
         /\ Len(lastbatch) > 0
         /\ Len(lastbatch) = (IF nbatch <= C16_M \div C16_B THEN C16_B
                               ELSE C16_M % C16_B)
         /\ lastbatch = SubSeq(merged, (nbatch - 1) * C16_B + 1, Len(merged))
    /\ Len(merged) = Min(nbatch * C16_B, C16_M)
    /\ \A k \in 1..Len(merged) :
         \E i \in 1..Len(iterables) :
            /\ merged[k].qt = render_index[iterables[i].qt]
            /\ WorkerQuadtree(merged[k].qt) = iterables[i].qt
            /\ merged[k].tile < iterables[i].len
            /\ RefPos(C10_Lens, i, merged[k].tile) = k
    /\ \A i \in 1..Len(iterables) :
         iterables[i].len = (IF level = 1 THEN Pow4(quadtrees[iterables[i].qt])
                             ELSE Pow4(zoom))
    /\ pc = "batchdone" =>
         /\ Len(merged) = C16_M
         /\ nbatch = (C16_M + C16_B - 1) \div C16_B

\* The inner-tile batcher has ended after three batches or more, the last
\* one short, over the jobs of two quadtrees or more.
C16_Witness ==
    /\ pc = "batchdone"
    /\ level = 2
    /\ Len(iterables) >= 2
    /\ nbatch >= 3
    /\ Len(lastbatch) < C16_B

\* ---------------------------------------------------------------------
\* C17.  Count conservation within a level.  The queue holds the handles
\* appended and not yet resolved, oldest first; a handle leaves it only by
\* being resolved, the oldest one each time, so every handle is resolved
\* once at most and in the order of submission, and every handle of a level
\* has been resolved when the level ends.  complete is 0 when a level
\* starts, changes only by the count of the handle just resolved (the number
\* of jobs of its batch), so it never decreases in a level and is the sum of
\* the counts resolved in the level.  The unconditional line of a level is
\* logged once, with the queue empty and complete equal to the number of
\* jobs generated for the level.
C17_Generated == SeqSum(rr.iters)

C17_Inv ==
    /\ Len(results) = nextid - 1 - lastget
    /\ results # <<>> => /\ Head(results) = lastget + 1
                         /\ results[Len(results)] = nextid - 1
    /\ DOMAIN handles = (lastget + 1)..(nextid - 1)
    /\ complete >= 0
    /\ complete <= C17_Generated
    /\ pc \in {"levelstart", "close", "root", "done"} =>
         /\ results = <<>>
         /\ complete = C17_Generated
         /\ lastline = [complete |-> complete, total |-> total,
                        level |-> level, max_p |-> max_p,
                        unconditional |-> TRUE]
    /\ finished = (IF pc \in {"levelstart", "close", "root", "done"}
                   THEN 1..level ELSE 1..(level - 1))
         \/ pc = "raised"

C17_Step ==
    /\ results' # results =>
         \/ /\ results' = Append(results, nextid)
            /\ nextid' = nextid + 1
            /\ handles'[nextid].level = level
            /\ UNCHANGED <<complete, lastget>>
         \/ /\ results # <<>>
            /\ results' = Tail(results)
            /\ lastget' = Head(results)
            /\ nextid' = nextid
            /\ handles[Head(results)].status \in {"done", "failed"}
            /\ \/ /\ handles[Head(results)].status = "done"
                  /\ handles[Head(results)].res > 0
                  /\ procs > 1 => handles[Head(results)].res
                                    = Len(handles[Head(results)].batch)
                  /\ complete' = complete + handles[Head(results)].res
               \/ /\ handles[Head(results)].status = "failed"
                  /\ pc' = "raised"
                  /\ complete' = complete
    /\ results' = results =>
         /\ UNCHANGED <<nextid, lastget>>
         /\ complete' # complete =>
               /\ pc \in {"start", "levelstart"}
               /\ pc' = "gen"
               /\ complete' = 0
    /\ (pc \in {"start", "levelstart"} /\ pc' = "gen") =>
         /\ complete' = 0
         /\ results' = <<>>
    /\ (lastline' # lastline /\ lastline'.unconditional) =>
         /\ pc = "finaldrain"
         /\ results = <<>>
         /\ complete = C17_Generated
         /\ level \notin finished
         /\ finished' = finished \cup {level}
         /\ lastline'.complete = complete
         /\ lastline'.level = level
    /\ finished' # finished =>
         /\ lastline' # lastline
         /\ lastline'.unconditional

C17_CountConservation == []C17_Inv /\ [][C17_Step]_vars

\* Every level of a run with workers over three levels has ended, each with
\* its unconditional line.
C17_Witness ==
    /\ pc = "close"
    /\ procs > 1
    /\ finished = 1..max_p
    /\ max_p >= 2
    /\ Len(quadtrees) >= 2
    /\ lastline.unconditional
    /\ lastline.complete = complete
    /\ complete > 0
    /\ lastget = nextid - 1
    /\ nextid > 3

\* ---------------------------------------------------------------------
\* C18.  Level sequence.  The base pass (level 1) takes the leaf jobs of
\* every quadtree, with total the sum of 4^p; the inner passes follow for
\* zoom = max_p - 1 down to 1, one zoom lower each time, each once (none
\* when max_p is 1); the pass for zoom z takes inner jobs of exactly the
\* quadtrees of depth z or more, in list order, 4^z of each, and its total
\* is 4^z times their number.
C18_InLevel == pc \in GenPcs \cup {"finaldrain"}

C18_Eligible(z) == {i \in 1..Len(quadtrees) : quadtrees[i] >= z}

C18_Inv ==
    /\ pc # "start" => max_p = SeqMax(quadtrees)
    /\ (C18_InLevel /\ level = 1) =>
         /\ zoom = 0
         /\ total = SeqSum([i \in 1..Len(quadtrees) |-> Pow4(quadtrees[i])])
         /\ Len(iterables) = Len(quadtrees)
         /\ \A i \in 1..Len(quadtrees) :
               iterables[i] = [qt |-> i, len |-> Pow4(quadtrees[i])]
    /\ (C18_InLevel /\ level # 1) =>
         /\ zoom \in 1..(max_p - 1)
         /\ level = max_p - zoom + 1
         /\ total = Pow4(zoom) * Cardinality(C18_Eligible(zoom))
         /\ Len(iterables) = Cardinality(C18_Eligible(zoom))
         /\ \A k \in 1..Len(iterables) :
               /\ iterables[k].qt \in C18_Eligible(zoom)
               /\ iterables[k].len = Pow4(zoom)
               /\ \A k2 \in 1..(k - 1) : iterables[k2].qt < iterables[k].qt
    /\ C18_InLevel => finished = 1..(level - 1)
    /\ pc = "timecheck" =>
         \A j \in 1..Len(lastbatch) :
            WorkerQuadtree(lastbatch[j].qt)
               \in (IF level = 1 THEN 1..Len(quadtrees)
                    ELSE C18_Eligible(zoom))
    /\ pc \in {"close", "root", "done"} =>
         /\ level = max_p
         /\ finished = 1..max_p
         /\ zoom = (IF max_p <= 1 THEN 0 ELSE 1)

C18_Step ==
    /\ level' # level =>
         \/ pc = "start" /\ level' = 1
         \/ /\ pc = "levelstart"
            /\ level' = level + 1
            /\ level' = max_p - zoom + 1
    /\ zoom' # zoom =>
         /\ pc = "finaldrain"
         /\ pc' = "levelstart"
         /\ zoom' = (IF zoom = 0 THEN max_p - 1 ELSE zoom - 1)
         /\ zoom' >= 1
    /\ (pc = "finaldrain" /\ pc' = "close") =>
         (IF zoom = 0 THEN max_p <= 1 ELSE zoom = 1)

C18_LevelSequence == []C18_Inv /\ [][C18_Step]_vars

\* The pass for zoom 2 of the run over a quadtree of depth 1 and one of
\* depth 3 has submitted its batch: 16 inner jobs of the second quadtree,
\* none of the first.
C18_Witness ==
    /\ quadtrees = <<1, MixedP>>
    /\ pc = "timecheck"
    /\ zoom = 2
    /\ level = 2
    /\ total = 16
    /\ Len(lastbatch) = 16
    /\ Len(iterables) = 1
    /\ C18_Eligible(zoom) = {2}

\* ---------------------------------------------------------------------
\* C19.  Each tile level of a quadtree comes from one kind of job: no inner
\* job is generated for a quadtree at zoom = its depth, the level its leaf
\* jobs render; the sources of an inner pass, and the jobs of the batches
\* it submits, belong to quadtrees deeper than the zoom.  Violated by
\* go: the test is zoom <= q.p.
C19_OneKindPerLevel ==
    (C18_InLevel /\ level >= 2) =>
        /\ \A k \in 1..Len(iterables) : quadtrees[iterables[k].qt] > zoom
        /\ pc = "timecheck" =>
             \A j \in 1..Len(lastbatch) :
                quadtrees[WorkerQuadtree(lastbatch[j].qt)] > zoom

\* ---------------------------------------------------------------------
\* C20.  Every progress line logged while a level is processed carries the
\* number of that level: the last line logged is a line of the current
\* level, or, before the first line of a level, the unconditional line of
\* the level before.  Violated by go: the time-based drain of an inner
\* pass logs its lines with level 1.
C20_LineLevel ==
    lastline # NoLine =>
        \/ lastline.level = level
        \/ /\ lastline.unconditional
           /\ lastline.level = level - 1
====
